---- MODULE Spec2Model ----
(***************************************************************************)
(* Model of two pieces of the datatable column/table engine:               *)
(*                                                                         *)
(*   - DataTable::rbind (src/c/datatable_rbind.cc): the receiver table is  *)
(*     reified, its column array is grown, and every result column is     *)
(*     fused from the receiver's column and one contribution per source   *)
(*     table.  Tables live in a heap `tab` addressed by table id, so that  *)
(*     a source table that is the receiver itself is read through the     *)
(*     same slots the call is writing.                                     *)
(*                                                                         *)
(*   - Cut_ColumnImpl (src/unnamed/part_000): the factory `make`, the      *)
(*     coefficient derivation `set_cut_coeffs` and the per-element        *)
(*     evaluation `get_element`.  The double coefficients a, b are held    *)
(*     as exact rationals a_num/den, b_num/den.                            *)
(*                                                                         *)
(* Spec is one rbind call from every initial table, SpecSeq sequences of   *)
(* up to MaxCalls rbind calls on the same table, SpecCut the life of one   *)
(* Cut column: made once from a source column, then read element by        *)
(* element.                                                                *)
(***************************************************************************)
EXTENDS Integers, Sequences, FiniteSets

VARIABLES tab, pre, call, ret, fused, ncalls, src, mk, cut, elem

vars == <<tab, pre, call, ret, fused, ncalls, src, mk, cut, elem>>
rbindVars == <<tab, pre, call, ret, fused, ncalls>>
cutVars == <<src, mk, cut, elem>>

(***************************************************************************)
(* Bounds of the model.                                                    *)
(***************************************************************************)
\* rbind calls made on one table (SpecSeq).
MaxCalls == 2
\* Source tables of one rbind call (ndts).
MaxNdts == 2
\* Columns of the grown table (ncols__).
MaxNcols == 2
\* Rows of the column handed to Cut make.
MaxLen == 3
\* Finite values of that column are -MaxVal..MaxVal.
MaxVal == 2
\* nbins of Cut make is 0..MaxNbins.
MaxNbins == 3

(***************************************************************************)
(* Elements, columns, row indices, tables.                                 *)
(***************************************************************************)
\* The per-element "value absent" marker: validity flag FALSE.
NA == [valid |-> FALSE, v |-> 0]

\* A valid element holding x.
Val(x) == [valid |-> TRUE, v |-> x]

\* A null Column* (an empty slot of the column array, or a failed result).
NULL == [null |-> TRUE, data |-> <<>>]

\* A Column holding the rows `d`.
Col(d) == [null |-> FALSE, data |-> d]

\* A null RowIndex* (the table is not a view).
NoRowIndex == [null |-> TRUE, ind |-> <<>>]

\* A RowIndex given by an explicit array of physical row positions (1-based).
RowIndexOf(ind) == [null |-> FALSE, ind |-> ind]

\* new Column(ST_VOID, n): n rows, every one NA.
VoidColumn(n) == Col([k \in 1..n |-> NA])

\* Column::extract(rowindex): the rows of col selected, in order, by ri.
Extract(col, ri) == Col([k \in 1..Len(ri.ind) |-> col.data[ri.ind[k]]])

\* new Column(Column*): a handle sharing the same contents, no data copy.
ShareColumn(col) == Col(col.data)

RECURSIVE ConcatAll(_)
ConcatAll(ss) == IF ss = <<>> THEN <<>> ELSE Head(ss) \o ConcatAll(Tail(ss))

\* Column::rbind(cols): the receiver's rows, then each block's rows in order.
Column_rbind(col0, cols0) ==
  Col(col0.data \o ConcatAll([k \in 1..Len(cols0) |-> cols0[k].data]))

\* DataTable::reify(): resolve the table-level RowIndex into every column and
\* clear it; nrows is unchanged.
reify(t) ==
  IF t.rowindex.null THEN t
  ELSE [t EXCEPT !.columns = [k \in 1..Len(t.columns) |->
                                IF k <= t.ncols
                                  THEN Extract(t.columns[k], t.rowindex)
                                  ELSE t.columns[k]],
                 !.rowindex = NoRowIndex]

\* A table: ncols live columns in slots 1..ncols of a null-terminated array.
Table(nrows, rowindex, cols) ==
  [nrows |-> nrows, ncols |-> Len(cols), rowindex |-> rowindex,
   columns |-> cols \o <<NULL>>]

\* Column c (0-based) of table t as its rows read: through the table's
\* RowIndex when it has one, directly otherwise.
Resolved(t, c) ==
  IF t.rowindex.null THEN t.columns[c + 1].data
  ELSE Extract(t.columns[c + 1], t.rowindex).data

(***************************************************************************)
(* DataTable::rbind                                                        *)
(***************************************************************************)
\* The receiver of every call, and the tables a call may name as sources.
Self == "A"
TableIds == {"A", "B", "V"}

\* Lines 32-36: the column array regrown to ncols__ + 1 slots, the slots
\* from ncols on set to NULL.
GrowColumns(t, ncols__) ==
  [k \in 1..(ncols__ + 1) |-> IF k <= t.ncols THEN t.columns[k] ELSE NULL]

RECURSIVE SumNrows(_, _, _)
SumNrows(heap, dts, n) ==
  IF n = 0 THEN 0 ELSE SumNrows(heap, dts, n - 1) + heap[dts[n]].nrows

\* NewNrows with the receiver's own rows left out of the sum.
NewNrows_NoReceiver(heap, self, dts) == SumNrows(heap, dts, Len(dts))

\* Lines 38-41: nrows__ = nrows + sum of dts[i]->nrows.
NewNrows(heap, self, dts) == heap[self].nrows + SumNrows(heap, dts, Len(dts))

\* Lines 49-51: the receiver's own contribution to result column i (0-based).
Col0(heap, self, i) ==
  IF i < heap[self].ncols THEN heap[self].columns[i + 1]
  ELSE VoidColumn(heap[self].nrows)

\* Contribution with the NA block sized by dts[0] instead of dts[j].
Contribution_WrongTable(heap, dts, cols, i, j) ==
  LET t == heap[dts[j + 1]]
      c == cols[i + 1][j + 1]
  IN  IF c < 0 THEN VoidColumn(heap[dts[1]].nrows)
      ELSE IF ~t.rowindex.null THEN Extract(t.columns[c + 1], t.rowindex)
      ELSE ShareColumn(t.columns[c + 1])

\* Lines 53-59: source table j's contribution to result column i; both
\* 0-based, cols[i][j] is cols[i + 1][j + 1] here.
Contribution(heap, dts, cols, i, j) ==
  LET t == heap[dts[j + 1]]
      c == cols[i + 1][j + 1]
  IN  IF c < 0 THEN VoidColumn(t.nrows)
      ELSE IF ~t.rowindex.null THEN Extract(t.columns[c + 1], t.rowindex)
      ELSE ShareColumn(t.columns[c + 1])

\* Lines 47-65: the loop over result columns from column i on.  failAt is the
\* column at which a contribution (line 60) or the fusion (line 63) comes
\* back NULL, or -1 when none does.  `fused` records the operands handed to
\* Column::rbind for every column fused.
RECURSIVE FuseLoop(_, _, _, _, _, _, _, _)
FuseLoop(heap, self, dts, cols, ncols__, failAt, i, blocks) ==
  IF i >= ncols__ THEN [heap |-> heap, ok |-> TRUE, fused |-> blocks]
  ELSE IF i = failAt THEN [heap |-> heap, ok |-> FALSE, fused |-> blocks]
  ELSE
    LET col0 == Col0(heap, self, i)
        cols0 == [k \in 1..Len(dts) |-> Contribution(heap, dts, cols, i, k - 1)]
        res == Column_rbind(col0, cols0)
        heap2 == [heap EXCEPT ![self].columns[i + 1] = res]
    IN  FuseLoop(heap2, self, dts, cols, ncols__, failAt, i + 1,
                 Append(blocks, <<col0.data>>
                                  \o [k \in 1..Len(dts) |-> cols0[k].data]))

\* Lines 66-68: ncols and nrows are committed after the loop.
Commit(heap, self, ncols__, nrows__) ==
  [heap EXCEPT ![self].ncols = ncols__, ![self].nrows = nrows__]

\* Lines 24-69: the whole call.
DataTable_rbind(heap, self, dts, cols, ncols__, failAt) ==
  LET h1 == [heap EXCEPT ![self] = reify(heap[self])]
      h2 == [h1 EXCEPT ![self].columns = GrowColumns(h1[self], ncols__)]
      nrows__ == NewNrows(h2, self, dts)
      loop == FuseLoop(h2, self, dts, cols, ncols__, failAt, 0, <<>>)
  IN  IF loop.ok
        THEN [heap |-> Commit(loop.heap, self, ncols__, nrows__),
              ret |-> "this", fused |-> loop.fused]
        ELSE [heap |-> loop.heap, ret |-> "NULL", fused |-> loop.fused]

\* The sequences of length n over S.
SeqsOfLen(S, n) == [1..n -> S]

(***************************************************************************)
(* Cut_ColumnImpl                                                          *)
(*                                                                         *)
(* A column is [stype, data]; data is a sequence of elements.  Finite      *)
(* values are the integers -MaxVal..MaxVal; PosInf and NegInf stand for    *)
(* the two infinities of a FLOAT64 column.  No arithmetic is ever done on  *)
(* them: make returns the constant-NA column when Min or Max is infinite.  *)
(*                                                                         *)
(* The doubles a_ and b_ are the exact rationals a_num/den and b_num/den   *)
(* (den > 0).  On the values of this model (small integers, nbins far      *)
(* below 1/epsilon) a*value + b is either an exact integer multiple of     *)
(* (1 - epsilon), at least epsilon away from the next integer, or at       *)
(* least 1/(max - min) away from any integer, so rounding in double        *)
(* arithmetic does not change the truncated result.                        *)
(***************************************************************************)
\* 1 / std::numeric_limits<float>::epsilon(): epsilon is 2^-23.
EpsInv == 8388608

PosInf == MaxVal + 1
NegInf == -MaxVal - 1

NoMake == [nbins |-> 0, right_closed |-> FALSE]
NoCut == [kind |-> "none"]
NoElem == [kind |-> "none"]

\* _isinf(x)
_isinf(x) == x = PosInf \/ x = NegInf

\* The values of the valid elements of a column.
ValidVals(col) == {col.data[k].v : k \in {n \in 1..Len(col.data) : col.data[n].valid}}

SetMin(S) == CHOOSE x \in S : \A y \in S : x <= y
SetMax(S) == CHOOSE x \in S : \A y \in S : x >= y

\* col.stats()->get_stat(Stat::Min, &tmin): valid iff the column has a valid
\* element, and then the smallest of them.
get_stat_Min(col) ==
  IF ValidVals(col) = {} THEN [valid |-> FALSE, value |-> 0]
  ELSE [valid |-> TRUE, value |-> SetMin(ValidVals(col))]

\* col.stats()->get_stat(Stat::Max, &tmax)
get_stat_Max(col) ==
  IF ValidVals(col) = {} THEN [valid |-> FALSE, value |-> 0]
  ELSE [valid |-> TRUE, value |-> SetMax(ValidVals(col))]

\* col.cast_inplace(SType::FLOAT64): the same rows as doubles (every value of
\* the model is exactly representable).
cast_inplace(col, stype) == [stype |-> stype, data |-> col.data]

\* new ConstNa_ColumnImpl(nrows, stype)
ConstNa_ColumnImpl(nrows, stype) ==
  [kind |-> "ConstNa", nrows |-> nrows, stype |-> stype]

\* Lines 112-117: the constructor; nrows is the child's, the type INT32.
Cut_ColumnImpl(col, coeffs) ==
  [kind |-> "Cut", nrows |-> Len(col.data), stype |-> "INT32", col_ |-> col,
   a_num |-> coeffs.a_num, b_num |-> coeffs.b_num, den |-> coeffs.den,
   shift_ |-> coeffs.shift]

\* set_cut_coeffs without the (1 - epsilon) guard on a.
set_cut_coeffs_NoGuard(min, max, nbins, right_closed) ==
  IF min = max
    THEN [a_num |-> 0,
          b_num |-> nbins * (EpsInv + (IF right_closed THEN -1 ELSE 1)),
          den |-> 2 * EpsInv,
          shift |-> 0]
    ELSE LET a_num == EpsInv * nbins
             den == EpsInv * (max - min)
         IN  IF right_closed
               THEN [a_num |-> a_num, b_num |-> -a_num * min, den |-> den,
                     shift |-> 0]
               ELSE [a_num |-> a_num,
                     b_num |-> -a_num * min - (EpsInv - 1) * nbins * (max - min),
                     den |-> den,
                     shift |-> nbins - 1]

\* Lines 141-161: a = a_num/den, b = b_num/den, shift.
set_cut_coeffs(min, max, nbins, right_closed) ==
  IF min = max
    THEN [a_num |-> 0,
          b_num |-> nbins * (EpsInv + (IF right_closed THEN -1 ELSE 1)),
          den |-> 2 * EpsInv,
          shift |-> 0]
    ELSE LET a_num == (EpsInv - 1) * nbins
             den == EpsInv * (max - min)
         IN  IF right_closed
               THEN [a_num |-> a_num, b_num |-> -a_num * min, den |-> den,
                     shift |-> 0]
               ELSE [a_num |-> a_num,
                     b_num |-> -a_num * min - (EpsInv - 1) * nbins * (max - min),
                     den |-> den,
                     shift |-> nbins - 1]

\* Cut_make without the nbins == 0 test.
Cut_make_NoZeroCheck(col, nbins, right_closed) ==
  LET tmin == get_stat_Min(col)
      tmax == get_stat_Max(col)
  IN  IF \/ ~tmin.valid
         \/ ~tmax.valid
         \/ _isinf(tmin.value)
         \/ _isinf(tmax.value)
        THEN ConstNa_ColumnImpl(Len(col.data), "INT32")
        ELSE Cut_ColumnImpl(cast_inplace(col, "FLOAT64"),
                            set_cut_coeffs(tmin.value, tmax.value, nbins,
                                           right_closed))

\* Lines 91-110: the factory.
Cut_make(col, nbins, right_closed) ==
  LET tmin == get_stat_Min(col)
      tmax == get_stat_Max(col)
  IN  IF \/ ~tmin.valid
         \/ ~tmax.valid
         \/ _isinf(tmin.value)
         \/ _isinf(tmax.value)
         \/ nbins = 0
        THEN ConstNa_ColumnImpl(Len(col.data), "INT32")
        ELSE Cut_ColumnImpl(cast_inplace(col, "FLOAT64"),
                            set_cut_coeffs(tmin.value, tmax.value, nbins,
                                           right_closed))

\* static_cast<int32_t>(num/den), den > 0: the fraction is dropped, that is
\* the quotient is rounded toward zero.
TruncToInt(num, den) ==
  IF num >= 0 THEN num \div den ELSE -((-num) \div den)

\* BinOf rounding down instead of toward zero.
BinOf_Floor(c, value) == ((c.a_num * value + c.b_num) \div c.den) + c.shift_

\* Line 136: static_cast<int32_t>(a_ * value + b_) + shift_.
BinOf(c, value) == TruncToInt(c.a_num * value + c.b_num, c.den) + c.shift_

\* get_element reporting every element as valid.
get_element_AlwaysValid(c, i, garbage) ==
  LET e == c.col_.data[i + 1]
  IN  [out |-> IF e.valid THEN BinOf(c, e.v) ELSE garbage, valid |-> TRUE]

\* Lines 133-138.  The child's element i (0-based) is read; when it is not
\* valid its `value` is not a number the code controls, and `garbage` is
\* what the conversion then leaves in *out.
get_element(c, i, garbage) ==
  LET e == c.col_.data[i + 1]
  IN  [out |-> IF e.valid THEN BinOf(c, e.v) ELSE garbage, valid |-> e.valid]

\* ConstNa_ColumnImpl::get_element: never valid.
ConstNa_get_element(c, i, garbage) == [out |-> garbage, valid |-> FALSE]

\* What *out may hold after reading an invalid child element.
GarbageOut == {-1, 0, 1}

Elems(stype) ==
  {NA} \cup {Val(x) : x \in (-MaxVal)..MaxVal}
       \cup (IF stype = "FLOAT64" THEN {Val(PosInf), Val(NegInf)} ELSE {})

\* The source columns: up to MaxLen rows of either type.
SourceColumns ==
  UNION { { [stype |-> st, data |-> d] : d \in SeqsOfLen(Elems(st), n) } :
            st \in {"INT32", "FLOAT64"}, n \in 0..MaxLen }

\* The factory builds the column once; get_element is then called on it any
\* number of times.
Make ==
  /\ cut = NoCut
  /\ \E nbins \in 0..MaxNbins : \E right_closed \in BOOLEAN :
       /\ mk' = [nbins |-> nbins, right_closed |-> right_closed]
       /\ cut' = Cut_make(src, nbins, right_closed)
  /\ elem' = NoElem
  /\ UNCHANGED <<src, rbindVars>>

GetElement ==
  /\ cut.kind # "none"
  /\ \E i \in 0..(cut.nrows - 1) :
     \E g \in (IF cut.kind = "Cut" /\ cut.col_.data[i + 1].valid
                THEN {0} ELSE GarbageOut) :
       LET r == IF cut.kind = "Cut" THEN get_element(cut, i, g)
                ELSE ConstNa_get_element(cut, i, g)
       IN  elem' = [kind |-> "elem", i |-> i, out |-> r.out, valid |-> r.valid,
                    this |-> cut]
  /\ UNCHANGED <<src, mk, cut, rbindVars>>

NoCall == [dts |-> <<>>, cols |-> <<>>, ncols__ |-> 0, failAt |-> -1]

RbindIdle ==
  /\ tab = <<>>
  /\ pre = <<>>
  /\ call = NoCall
  /\ ret = "none"
  /\ fused = <<>>
  /\ ncalls = 0

InitCut ==
  /\ src \in SourceColumns
  /\ mk = NoMake
  /\ cut = NoCut
  /\ elem = NoElem
  /\ RbindIdle

NextCut == Make \/ GetElement

SpecCut == InitCut /\ [][NextCut]_vars

(***************************************************************************)
(* The rbind system.                                                       *)
(***************************************************************************)
\* The tables the program starts with.
InitReceivers ==
  { Table(0, NoRowIndex, <<>>),
    Table(2, NoRowIndex, <<Col(<<Val(10), Val(20)>>)>>),
    Table(2, RowIndexOf(<<3, 1>>), <<Col(<<Val(10), NA, Val(20)>>)>>),
    Table(1, NoRowIndex, <<Col(<<Val(11)>>), Col(<<NA>>)>>) }

TableB == Table(1, NoRowIndex, <<Col(<<Val(30)>>)>>)

TableV ==
  Table(2, RowIndexOf(<<3, 2>>), <<Col(<<Val(40), NA, Val(41)>>)>>)


\* The column-mapping matrices for sources dts: row i, entry j is -1 or a
\* column index of source j.
ColMaps(heap, dts, ncols__) ==
  { m \in SeqsOfLen(SeqsOfLen(-1..(MaxNcols - 1), Len(dts)), ncols__) :
      \A i \in 1..ncols__ : \A j \in 1..Len(dts) :
         m[i][j] < heap[dts[j]].ncols }

\* One call of DataTable::rbind on the receiver, with any sources (the
\* receiver itself among them), any column mapping and any failure point.
RbindCall ==
  /\ \E ndts \in 0..MaxNdts :
     \E dts \in SeqsOfLen(TableIds, ndts) :
     \E ncols__ \in tab[Self].ncols..MaxNcols :   \* assert(ncols__ >= ncols)
     \E cols \in ColMaps(tab, dts, ncols__) :
     \E failAt \in -1..(ncols__ - 1) :
       LET r == DataTable_rbind(tab, Self, dts, cols, ncols__, failAt)
       IN  /\ tab' = r.heap
           /\ pre' = tab
           /\ call' = [dts |-> dts, cols |-> cols, ncols__ |-> ncols__,
                       failAt |-> failAt]
           /\ ret' = r.ret
           /\ fused' = r.fused
           /\ ncalls' = ncalls + 1
  /\ UNCHANGED cutVars

CutIdle ==
  /\ src = [stype |-> "FLOAT64", data |-> <<>>]
  /\ mk = NoMake
  /\ cut = NoCut
  /\ elem = NoElem

Init ==
  /\ \E a \in InitReceivers : tab = [id \in TableIds |->
                                       IF id = "A" THEN a
                                       ELSE IF id = "B" THEN TableB ELSE TableV]
  /\ pre = tab
  /\ call = NoCall
  /\ ret = "none"
  /\ fused = <<>>
  /\ ncalls = 0
  /\ CutIdle

\* The first call on a table as it was constructed.
Rbind == ncalls = 0 /\ RbindCall

\* A call on a table that earlier calls, failed ones included, have left.
RbindAgain == ncalls < MaxCalls /\ RbindCall

Next == Rbind

\* One call of rbind from every initial table.
Spec == Init /\ [][Next]_vars

NextSeq == RbindAgain

\* Sequences of up to MaxCalls calls of rbind on the same table.
SpecSeq == Init /\ [][NextSeq]_vars

(***************************************************************************)
(* Claims about DataTable::rbind.  `pre` is the heap when the last call    *)
(* began, `call` its arguments, `ret` what it returned, and `fused[i]`     *)
(* the operands <<col0, block 0, ..., block ndts-1>> of the fusion that    *)
(* produced result column i (1-based here).                                *)
(***************************************************************************)
AllNA(d) == \A k \in 1..Len(d) : ~d[k].valid

RECURSIVE LenUpTo(_, _)
LenUpTo(blocks, n) ==
  IF n = 0 THEN 0 ELSE LenUpTo(blocks, n - 1) + Len(blocks[n])

RECURSIVE RowsOfSources(_)
RowsOfSources(dts) ==
  IF dts = <<>> THEN 0 ELSE pre[Head(dts)].nrows + RowsOfSources(Tail(dts))

\* C1: a call that fails (returns NULL) leaves the receiver exactly as it was
\* before the call: same nrows, ncols, table-level RowIndex, and the same
\* column in every slot 0..ncols-1.
C1_AllOrNothing ==
  ret = "NULL" =>
    /\ tab[Self].nrows = pre[Self].nrows
    /\ tab[Self].ncols = pre[Self].ncols
    /\ tab[Self].rowindex = pre[Self].rowindex
    /\ \A k \in 1..pre[Self].ncols : tab[Self].columns[k] = pre[Self].columns[k]

\* C2: after a successful call the receiver's nrows is its nrows before the
\* call plus the sum of the nrows of all source tables (a view source counts
\* with its view row count).
C2_RowCountLaw ==
  ret = "this" =>
    tab[Self].nrows = pre[Self].nrows + RowsOfSources(call.dts)

\* C2 witness: a successful call with two sources with rows, one of them a view.
C2_Witness ==
  /\ ret = "this"
  /\ call.dts = <<"V", "B">>
  /\ pre[Self].nrows = 2
  /\ tab[Self].nrows = 5

\* C3: after a successful call every result column is the receiver's prior
\* rows followed by the source blocks in source order; block j with
\* colmap[i][j] >= 0 equals the (view-resolved) column colmap[i][j] of source
\* table j, and for i < prior ncols the leading rows equal the receiver's
\* prior (view-resolved) column i.
C3_OrderPreservation ==
  ret = "this" =>
    \A i \in 1..call.ncols__ :
      /\ tab[Self].columns[i].data = ConcatAll(fused[i])
      /\ i <= pre[Self].ncols => fused[i][1] = Resolved(pre[Self], i - 1)
      /\ \A j \in 1..Len(call.dts) :
           call.cols[i][j] >= 0 =>
             fused[i][j + 1] = Resolved(pre[call.dts[j]], call.cols[i][j])

\* C4: after a successful call, for every result column i >= prior ncols the
\* first (prior nrows) rows are all NA, and for every source j with
\* colmap[i][j] < 0 block j of result column i consists of exactly
\* dts[j].nrows rows, all NA.
C4_NAFill ==
  ret = "this" =>
    \A i \in 1..call.ncols__ :
      LET col == tab[Self].columns[i].data
      IN  /\ i > pre[Self].ncols =>
               /\ Len(col) >= pre[Self].nrows
               /\ AllNA(SubSeq(col, 1, pre[Self].nrows))
          /\ \A j \in 1..Len(call.dts) :
               call.cols[i][j] < 0 =>
                 LET off == LenUpTo(fused[i], j)
                     n == pre[call.dts[j]].nrows
                 IN  /\ Len(fused[i][j + 1]) = n
                     /\ Len(col) >= off + n
                     /\ AllNA(SubSeq(col, off + 1, off + n))

\* C4 witness: receiver [10, 20] grown to two columns with source B, column 0
\* unmapped and column 1 mapped: [10, 20, NA] and [NA, NA, 30].
C4_Witness ==
  /\ ret = "this"
  /\ call.dts = <<"B">>
  /\ call.cols = <<<<-1>>, <<0>>>>
  /\ pre[Self].ncols = 1
  /\ tab[Self].columns[1].data = <<Val(10), Val(20), NA>>
  /\ tab[Self].columns[2].data = <<NA, NA, Val(30)>>

\* C5: whenever the table has no table-level RowIndex, all of its ncols live
\* columns have nrows rows, slots 0..ncols-1 are non-null and slot ncols is
\* the null terminator.
C5_TableShape ==
  tab[Self].rowindex.null =>
    /\ Len(tab[Self].columns) >= tab[Self].ncols + 1
    /\ tab[Self].columns[tab[Self].ncols + 1].null
    /\ \A k \in 1..tab[Self].ncols :
         /\ ~tab[Self].columns[k].null
         /\ Len(tab[Self].columns[k].data) = tab[Self].nrows

\* C10: every block of a source that is the receiver itself holds the
\* receiver's column as it was when the call began, with the receiver's
\* pre-call nrows rows, also when colmap[i][j] < i.
C10_SourceSnapshot ==
  ret = "this" =>
    \A i \in 1..call.ncols__ : \A j \in 1..Len(call.dts) :
      (call.dts[j] = Self /\ call.cols[i][j] >= 0) =>
        /\ Len(fused[i][j + 1]) = pre[Self].nrows
        /\ fused[i][j + 1] = Resolved(pre[Self], call.cols[i][j])

(***************************************************************************)
(* Claims about Cut_ColumnImpl.  `src` is the column handed to make, `mk`  *)
(* the other arguments, `cut` the column made, and `elem` the last         *)
(* get_element call on it: its row, *out, the validity returned and the    *)
(* column as it was before the call.                                       *)
(***************************************************************************)
\* The value of the child's element read by the last get_element call.
ElemValue == cut.col_.data[elem.i + 1].v

\* A valid element of a Cut column over a source with finite min < max.
CutElemRead ==
  /\ cut.kind = "Cut"
  /\ elem.kind = "elem"
  /\ elem.valid
  /\ mk.nbins >= 1
  /\ SetMin(ValidVals(src)) < SetMax(ValidVals(src))

\* C6 as stated: value == min gets bin 0 if right_closed and nbins-1 if not,
\* value == max gets nbins-1 if right_closed and 0 if not, and a value
\* strictly between gets a bin in [0, nbins).
C6_AsStated ==
  CutElemRead =>
    LET lo == SetMin(ValidVals(src))
        hi == SetMax(ValidVals(src))
    IN  /\ (lo < ElemValue /\ ElemValue < hi) =>
             (0 <= elem.out /\ elem.out < mk.nbins)
        /\ ElemValue = lo =>
             elem.out = (IF mk.right_closed THEN 0 ELSE mk.nbins - 1)
        /\ ElemValue = hi =>
             elem.out = (IF mk.right_closed THEN mk.nbins - 1 ELSE 0)

\* C6 amended: for nbins >= 1 and finite min < max every valid element with
\* min < value < max gets a bin in [0, nbins); value == min gets bin 0 and
\* value == max gets bin nbins-1, whatever right_closed is.
C6_CutBounds ==
  CutElemRead =>
    LET lo == SetMin(ValidVals(src))
        hi == SetMax(ValidVals(src))
    IN  /\ (lo < ElemValue /\ ElemValue < hi) =>
             (0 <= elem.out /\ elem.out < mk.nbins)
        /\ ElemValue = lo => elem.out = 0
        /\ ElemValue = hi => elem.out = mk.nbins - 1

\* C6 witness: with right_closed false and at least two bins, the element
\* equal to min has been read and got bin 0.
C6_Witness ==
  /\ CutElemRead
  /\ ~mk.right_closed
  /\ mk.nbins >= 2
  /\ ElemValue = SetMin(ValidVals(src))
  /\ elem.out = 0

\* The source has no valid element, or a valid element that is infinite.
StatsDegenerate ==
  \/ ValidVals(src) = {}
  \/ PosInf \in ValidVals(src)
  \/ NegInf \in ValidVals(src)

\* C7: make always returns a column: the constant-NA INT32 column with the
\* source's nrows (every element NA) when Min or Max is invalid or infinite
\* or nbins == 0, and otherwise a Cut column of INT32 type with the source's
\* nrows.
C7_CutDegeneracy ==
  cut # NoCut =>
    /\ cut.stype = "INT32"
    /\ cut.nrows = Len(src.data)
    /\ IF StatsDegenerate \/ mk.nbins = 0
         THEN /\ cut.kind = "ConstNa"
              /\ elem.kind = "elem" => ~elem.valid
         ELSE cut.kind = "Cut"

\* C7 witness: an element of the constant-NA column made, with nbins >= 1,
\* from a source that has an infinite element has been read and is NA.
C7_Witness ==
  /\ cut.kind = "ConstNa"
  /\ mk.nbins >= 1
  /\ ValidVals(src) # {}
  /\ StatsDegenerate
  /\ elem.kind = "elem"
  /\ ~elem.valid

\* C8: get_element(i) of a Cut column returns exactly the child's validity
\* flag at row i, and leaves the coefficients and the child as they were.
C8_ValidityPropagation ==
  (cut.kind = "Cut" /\ elem.kind = "elem") =>
    /\ elem.valid = cut.col_.data[elem.i + 1].valid
    /\ elem.valid = src.data[elem.i + 1].valid
    /\ cut = elem.this

\* C8 witness: an invalid child element of a Cut column has been read.
C8_Witness ==
  /\ cut.kind = "Cut"
  /\ elem.kind = "elem"
  /\ ~cut.col_.data[elem.i + 1].valid
  /\ ~elem.valid

\* The scaled value a*value + b of the element read is num/den.
ElemNum == cut.a_num * ElemValue + cut.b_num

\* C9 as stated: bin - shift is a*value + b rounded down (floor), for
\* right_closed true and false alike.
C9_Floor ==
  (cut.kind = "Cut" /\ elem.kind = "elem" /\ elem.valid) =>
    LET t == elem.out - cut.shift_
    IN  t * cut.den <= ElemNum /\ ElemNum < (t + 1) * cut.den

\* C9 amended: for every row whose child element is valid, bin - shift is
\* a*value + b rounded toward zero: down when a*value + b >= 0
\* (right_closed true), up when a*value + b <= 0 (right_closed false).
C9_TowardZero ==
  (cut.kind = "Cut" /\ elem.kind = "elem" /\ elem.valid) =>
    LET t == elem.out - cut.shift_
    IN  IF ElemNum >= 0
          THEN t * cut.den <= ElemNum /\ ElemNum < (t + 1) * cut.den
          ELSE (t - 1) * cut.den < ElemNum /\ ElemNum <= t * cut.den

\* C9 witness: with right_closed false a valid element whose scaled value is
\* negative and not an integer has been read.
C9_Witness ==
  /\ cut.kind = "Cut"
  /\ elem.kind = "elem"
  /\ elem.valid
  /\ ~mk.right_closed
  /\ ElemNum < 0
  /\ ElemNum % cut.den # 0

====
